---- MODULE Spec2Model ----
(***************************************************************************)
(* Model of mep_meetings/scraper/scraper.py: BaseFetcher and               *)
(* EuroparlMeetingFetcher.  One fetcher object is constructed from a seed  *)
(* (referer) URL; run_async is then called on it some number of times.     *)
(* Every await of the coroutines is a separate step, so that the fetch     *)
(* tasks created by the gather interleave in every order.                  *)
(***************************************************************************)
EXTENDS Integers, Sequences, FiniteSets, TLC

(***************************************************************************)
(* Bounds of the model.                                                    *)
(***************************************************************************)
\* largest page count passed to run_async
MaxPages == 2
\* largest max_connections a fetcher is built with
MaxK == 2
\* run_async calls made on one fetcher
MaxRuns == 2
\* the links one fetcher may accumulate (the seed included)
MaxLinks == 3
\* record containers in one page body given to parse_article alone
MaxContainers == 2

(***************************************************************************)
(* Program constants.                                                      *)
(***************************************************************************)
\* stop_after_attempt(3)
MaxAttempts == 3

(***************************************************************************)
(* Python values.  Optional[x] is None or a value: a sequence of length at *)
(* most one.  A str is a sequence of one-character strings.                *)
(***************************************************************************)
None == <<>>
Some(x) == <<x>>
IsNone(o) == o = <<>>
Get(o) == o[1]

DigitChars == <<"0", "1", "2", "3", "4", "5", "6", "7", "8", "9">>
IsDigit(c) == \E d \in 1..10 : DigitChars[d] = c
DigitVal(c) == (CHOOSE d \in 1..10 : DigitChars[d] = c) - 1
IsSpace(c) == c \in {" ", "\n", "\t"}

\* str(n) for an int n
RECURSIVE StrNat(_)
StrNat(n) == IF n < 10 THEN <<DigitChars[n + 1]>>
             ELSE StrNat(n \div 10) \o <<DigitChars[(n % 10) + 1]>>
Str(n) == IF n < 0 THEN <<"-">> \o StrNat(-n) ELSE StrNat(n)

\* int(s) for a str s of decimal digits
RECURSIVE int(_)
int(s) == IF Len(s) = 0 THEN 0
          ELSE 10 * int(SubSeq(s, 1, Len(s) - 1)) + DigitVal(s[Len(s)])

\* the number of leading TRUEs of a sequence of flags: the length of what \d+
\* or leading whitespace consumes
LeadingTrue(flags) ==
    LET stops == {i \in 1..Len(flags) : ~flags[i]}
    IN  IF stops = {} THEN Len(flags)
        ELSE (CHOOSE i \in stops : \A j \in stops : i <= j) - 1

Reverse(s) == [i \in 1..Len(s) |-> s[Len(s) + 1 - i]]

\* s without its leading and trailing elements flagged as whitespace
StripFlagged(s, ws) ==
    LET a == LeadingTrue(ws)
        b == LeadingTrue(Reverse(ws))
    IN  IF a = Len(s) THEN <<>> ELSE SubSeq(s, a + 1, Len(s) - b)

\* str.strip()
strip(s) == StripFlagged(s, [i \in 1..Len(s) |-> IsSpace(s[i])])

\* the number of leading digits of a str
DigitPrefixLen(s) == LeadingTrue([i \in 1..Len(s) |-> IsDigit(s[i])])

\* str.replace("\n", " - ")
RECURSIVE ReplaceNewlines(_)
ReplaceNewlines(s) ==
    IF Len(s) = 0 THEN <<>>
    ELSE (IF s[1] = "\n" THEN <<" ", "-", " ">> ELSE <<s[1]>>)
         \o ReplaceNewlines(Tail(s))

(***************************************************************************)
(* URLs.  A URL is its path segments (the text between the slashes after   *)
(* the host; an empty last segment is a trailing slash) and its query      *)
(* parameters in order.                                                    *)
(***************************************************************************)
Url(path, query) == [path |-> path, query |-> query]
Param(k, v) == [k |-> k, v |-> v]

SegMeps == <<"m", "e", "p", "s">>
SegEn == <<"e", "n">>
SegName == <<"N">>
SegPast == <<"p", "a", "s", "t">>
SegLoadMore == <<"l", "o", "a", "d">>

\* "https://www.europarl.europa.eu/meps/en/loadmore-meetings"
base_url == Url(<<SegMeps, SegEn, SegLoadMore>>, <<>>)

\* Seed URLs a caller may pass: .../meps/en/25/N/past, one without a numeric
\* segment, one whose only numeric segment is the last one (no slash after
\* it), and one that carries a page parameter of its own.
SeedPlain == Url(<<SegMeps, SegEn, <<"2", "5">>, SegName, SegPast>>, <<>>)
SeedNoId == Url(<<SegMeps, SegEn, SegName, SegPast>>, <<>>)
SeedIdLast == Url(<<SegMeps, SegEn, <<"2", "5">>>>, <<>>)
SeedPaged == Url(<<SegMeps, SegEn, <<"3">>, SegPast>>, <<Param("page", <<"7">>)>>)
Seeds == {SeedPlain, SeedNoId, SeedIdLast, SeedPaged}

IsDigits(seg) == Len(seg) > 0 /\ \A i \in 1..Len(seg) : IsDigit(seg[i])

\* the pattern without its closing slash, r"/(\d+)": the last segment matches too
MemberIdMatch_open(url) ==
    LET hits == {i \in 1..Len(url.path) : IsDigits(url.path[i])}
    IN  IF hits = {} THEN None
        ELSE Some(url.path[CHOOSE i \in hits : \A j \in hits : i <= j])

\* re.search(r"/(\d+)/", referer_url): the first all-digit segment that has a
\* slash on both sides; None when there is none
MemberIdMatch(url) ==
    LET hits == {i \in 1..(Len(url.path) - 1) : IsDigits(url.path[i])}
    IN  IF hits = {} THEN None
        ELSE Some(url.path[CHOOSE i \in hits : \A j \in hits : i <= j])

\* extract_member_id raises ValueError when the pattern does not match
extract_member_id_raises(url) == IsNone(MemberIdMatch(url))
extract_member_id(url) == Get(MemberIdMatch(url))

\* urllib.parse.urlencode(params): every value here is made of letters and
\* digits, which quote_plus leaves as they are; the order of the dict is kept
urlencode(params) == params

\* the URL construct_or_retrieve_links(page) appends
constructed_url(mid, page) ==
    Url(base_url.path,
        urlencode(<<Param("meetingType", <<"P", "A", "S", "T">>),
                    Param("memberId", mid),
                    Param("termId", <<"1", "0">>),
                    Param("page", Str(page)),
                    Param("pageSize", <<"1", "0">>)>>))

\* re.search(r"page=(\d+)", article_url): the first parameter named page whose
\* value starts with a digit; the group is the run of digits
PageMatch(url) ==
    LET hits == {i \in 1..Len(url.query) :
                    /\ url.query[i].k = "page"
                    /\ DigitPrefixLen(url.query[i].v) > 0}
    IN  IF hits = {} THEN None
        ELSE LET i == CHOOSE h \in hits : \A j \in hits : h <= j
             IN  Some(SubSeq(url.query[i].v, 1, DigitPrefixLen(url.query[i].v)))

\* the page number falling back to the first page
PageOf_default_one(url) ==
    IF IsNone(PageMatch(url)) THEN 1 ELSE int(Get(PageMatch(url)))

\* parse_article's page number: int(match.group(1)), 0 when that raises
PageOf(url) == IF IsNone(PageMatch(url)) THEN 0 ELSE int(Get(PageMatch(url)))

(***************************************************************************)
(* Page bodies.  A body is the sequence of its top-level markup nodes:     *)
(* whitespace, other text or markup, markup the HTML parser rejects, and   *)
(* record containers (.erpl_document-header).  A container holds, for each *)
(* of the six selectors, the element select_one finds (None when there is  *)
(* none): the element's text, or for <time> its datetime attribute (None   *)
(* when the attribute is missing).                                         *)
(***************************************************************************)
WsNode == [kind |-> "ws"]
TextNode == [kind |-> "text"]
BadNode == [kind |-> "bad"]
Header(t, d, l, c, b, a) ==
    [kind |-> "header", t_item |-> t, time |-> d, location |-> l,
     capacity |-> c, committee |-> b, author |-> a]

IsWsNode(n) == n.kind = "ws"

\* article_html.strip()
strip_html(body) == StripFlagged(body, [i \in 1..Len(body) |-> IsWsNode(body[i])])
IsHeader(n) == n.kind = "header"

\* the keys of a record, as parse_article writes them
Fields == {"Title", "Date", "Place", "Capacity",
           "Code of associated committee or delegation", "Meeting with"}
Keys == Fields \cup {"page_number"}

\* element.get_text(); raises (caught: the field is None) when select_one found
\* nothing
get_text_field(el) == IF IsNone(el) THEN None ELSE Some(Get(el))

\* element.get_text().strip().replace("\n", " - ")
stripped_field(el) ==
    IF IsNone(el) THEN None ELSE Some(ReplaceNewlines(strip(Get(el))))

\* element.get("datetime"): None when the attribute is missing
datetime_field(el) == IF IsNone(el) THEN None ELSE Get(el)

\* what parse_article stores under key k for one container
field_value(header, k) ==
    CASE k = "Title" -> get_text_field(header.t_item)
      [] k = "Date" -> datetime_field(header.time)
      [] k = "Place" -> get_text_field(header.location)
      [] k = "Capacity" -> stripped_field(header.capacity)
      [] k = "Code of associated committee or delegation" ->
            stripped_field(header.committee)
      [] k = "Meeting with" -> stripped_field(header.author)

\* the six extractions under one try: the first that raises ends them all
FieldOrder == <<"Title", "Date", "Place", "Capacity",
                "Code of associated committee or delegation", "Meeting with">>
record_of_one_try(header, page) ==
    [k \in Keys |->
        IF k = "page_number" THEN page
        ELSE LET pos == CHOOSE n \in 1..6 : FieldOrder[n] = k
             IN  IF \E n \in 1..pos : IsNone(field_value(header, FieldOrder[n]))
                 THEN None
                 ELSE field_value(header, k)]

\* the record parse_article builds for one container
record_of(header, page) ==
    [k \in Keys |-> IF k = "page_number" THEN page ELSE field_value(header, k)]

\* parse_article(article_html, article_url): None, or Some(the list of records)
parse_article(article_html, article_url) ==
    IF Len(strip_html(article_html)) = 0 THEN None
    ELSE LET page == PageOf(article_url)
             headers == SelectSeq(article_html, IsHeader)
         IN  IF \E i \in 1..Len(article_html) : article_html[i].kind = "bad"
             THEN None
             ELSE Some([i \in 1..Len(headers) |-> record_of(headers[i], page)])

\* [item for sublist in lists if sublist is not None for item in sublist]
RECURSIVE flatten(_)
flatten(lists) ==
    IF Len(lists) = 0 THEN <<>>
    ELSE (IF IsNone(lists[1]) THEN <<>> ELSE Get(lists[1]))
         \o flatten(Tail(lists))

Min(a, b) == IF a < b THEN a ELSE b

\* zip(responses, article_links)
zip(xs, ys) == [i \in 1..Min(Len(xs), Len(ys)) |-> <<xs[i], ys[i]>>]

\* the bodies filtered before they are paired with the links, and by truth
\* value: an empty body is dropped and the later bodies meet the wrong URL
parse_all_filter_first(resps, links) ==
    LET kept == SelectSeq(resps, LAMBDA r : ~IsNone(r) /\ Len(Get(r)) > 0)
        pairs == zip(kept, links)
    IN  [i \in 1..Len(pairs) |-> parse_article(Get(pairs[i][1]), pairs[i][2])]

\* the first comprehension of run_async: parse every body that is not None
parse_all(resps, links) ==
    LET pairs == SelectSeq(zip(resps, links), LAMBDA p : ~IsNone(p[1]))
    IN  [i \in 1..Len(pairs) |-> parse_article(Get(pairs[i][1]), pairs[i][2])]

\* sorted(res) of tqdm_asyncio.gather, then the second components
sorted_results(res) ==
    [k \in 1..Len(res) |->
        LET e == CHOOSE x \in {res[j] : j \in 1..Len(res)} :
                    Cardinality({j \in 1..Len(res) : res[j][1] < x[1]}) = k - 1
        IN  e[2]]

(***************************************************************************)
(* The bodies the transport answers with in a run.                         *)
(***************************************************************************)
TxtA == <<"a">>
TxtDate == <<"d">>
TxtPadded == <<" ", "a", "\n", "b", " ">>
HdrFull == Header(Some(TxtA), Some(Some(TxtDate)), Some(TxtA),
                  Some(TxtPadded), Some(TxtA), Some(TxtPadded))
HdrNoDate == Header(Some(TxtPadded), None, Some(TxtA),
                    Some(TxtA), None, Some(TxtA))
HdrBare == Header(None, Some(None), None, None, None, None)
BodyEmpty == <<>>
BodyBlank == <<WsNode, WsNode>>
BodyThree == <<HdrFull, TextNode, HdrNoDate, WsNode, HdrBare>>
Bodies == {BodyEmpty, BodyBlank, BodyThree}

\* the page counts a caller passes to run_async
PageCounts == (0 - 1)..MaxPages

\* HTTP status codes of a response; raise_for_status raises for 4xx and 5xx
Statuses == {200, 404, 500}
raise_for_status_raises(status) == status >= 400

(***************************************************************************)
(* State.                                                                  *)
(***************************************************************************)
VARIABLES
    phase,          \* where the fetcher is: "Invalid" (__init__ raised), "Idle",
                    \* "Planning", "Collecting", "Parsing", "Done", "Aborted"
    referer_url,    \* self.referer_url
    member_id,      \* self.member_id
    article_links,  \* self.article_links
    articles,       \* self.articles
    semaphore,      \* the value of self.semaphore
    max_connections,\* the max_connections the fetcher was built with
    pages,          \* the argument of the current run_async call
    page,           \* the loop variable of fetch_all_articles
    tasks,          \* the fetch_article tasks of the gather, by link position
    doneq,          \* the positions of the finished tasks, in order of completion
    responses,      \* what fetch_all_articles returned
    runs,           \* run_async calls made so far
    article_html,   \* the body given to a call of parse_article on its own
    article_url,    \* the URL given to it
    parsed          \* whether that call has returned, and what

vars == <<phase, referer_url, member_id, article_links, articles, semaphore,
          max_connections, pages, page, tasks, doneq, responses, runs,
          article_html, article_url, parsed>>

fetcher_vars == <<referer_url, member_id, semaphore, max_connections>>
call_vars == <<article_html, article_url, parsed>>
run_vars == <<phase, article_links, articles, pages, page, tasks, doneq,
              responses, runs>>

NotCalled == [returned |-> FALSE, value |-> None]
Returned(v) == [returned |-> TRUE, value |-> v]

\* a fetch_article coroutine that has not run yet: attempts is the attempt
\* number of the retry state of the call, sleeps the waits it has made
NewTask == [st |-> "ready", attempts |-> 0, sleeps |-> 0, body |-> None]

Finished == {"ok", "failed", "cancelled"}
TaskIds == 1..Len(tasks)

(***************************************************************************)
(* EuroparlMeetingFetcher.__init__(referer_url, max_connections=K)         *)
(***************************************************************************)
Construct(seed, K) ==
    /\ referer_url = seed
    /\ article_links = <<seed>>
    /\ articles = <<>>
    /\ semaphore = K
    /\ max_connections = K
    /\ IF extract_member_id_raises(seed)
       THEN member_id = <<>> /\ phase = "Invalid"
       ELSE member_id = extract_member_id(seed) /\ phase = "Idle"
    /\ pages = 0
    /\ page = 0
    /\ tasks = <<>>
    /\ doneq = <<>>
    /\ responses = <<>>
    /\ runs = 0

NoCall ==
    /\ article_html = <<>>
    /\ article_url = base_url
    /\ parsed = NotCalled

Init == NoCall /\ \E seed \in Seeds, K \in 1..MaxK : Construct(seed, K)

(***************************************************************************)
(* run_async(pages) is called: fetch_all_articles starts its loop.  The    *)
(* tasks left behind by a run that raised touch nothing of the fetcher;    *)
(* they have ended before the next call is made.                           *)
(***************************************************************************)
Max(a, b) == IF a > b THEN a ELSE b

\* the stored result emptied when a run begins
RunAsyncClearsResult(p) ==
    /\ phase \in {"Idle", "Done", "Aborted"}
    /\ \A i \in TaskIds : tasks[i].st \in Finished
    /\ runs < MaxRuns
    /\ Len(article_links) + Max(p, 0) <= MaxLinks
    /\ phase' = "Planning"
    /\ pages' = p
    /\ page' = 1
    /\ runs' = runs + 1
    /\ tasks' = <<>>
    /\ doneq' = <<>>
    /\ responses' = <<>>
    /\ articles' = <<>>
    /\ UNCHANGED <<call_vars, fetcher_vars, article_links>>

RunAsync(p) ==
    /\ phase \in {"Idle", "Done", "Aborted"}
    /\ \A i \in TaskIds : tasks[i].st \in Finished
    /\ runs < MaxRuns
    /\ Len(article_links) + Max(p, 0) <= MaxLinks
    /\ phase' = "Planning"
    /\ pages' = p
    /\ page' = 1
    /\ runs' = runs + 1
    /\ tasks' = <<>>
    /\ doneq' = <<>>
    /\ responses' = <<>>
    /\ UNCHANGED <<call_vars, fetcher_vars, article_links, articles>>

\* the link list started afresh by the first page of a run
construct_links_afresh(links, mid, pg) ==
    IF pg = 1 THEN <<links[1], constructed_url(mid, pg)>>
    ELSE Append(links, constructed_url(mid, pg))

\* construct_or_retrieve_links(page)
construct_or_retrieve_links(links, mid, pg) ==
    Append(links, constructed_url(mid, pg))

\* one iteration of: for page in range(1, pages + 1)
PlanPage ==
    /\ phase = "Planning"
    /\ page <= pages
    /\ article_links' = construct_or_retrieve_links(article_links, member_id, page)
    /\ page' = page + 1
    /\ UNCHANGED <<call_vars, fetcher_vars, phase, articles, pages, tasks, doneq, responses, runs>>

\* the exception of the planner caught and dropped: the loop goes on with the
\* next page
PlanRaiseSwallowed ==
    /\ phase = "Planning"
    /\ page <= pages
    /\ page' = page + 1
    /\ UNCHANGED <<call_vars, fetcher_vars, phase, article_links, articles, pages,
                   tasks, doneq, responses, runs>>

\* construct_or_retrieve_links(page) raises (the method is abstract in
\* BaseFetcher; the one of EuroparlMeetingFetcher does not raise): the except
\* clause logs and re-raises, out of fetch_all_articles and of run_async
PlanRaise ==
    /\ phase = "Planning"
    /\ page <= pages
    /\ phase' = "Aborted"
    /\ UNCHANGED <<call_vars, fetcher_vars, article_links, articles, pages, page,
                   tasks, doneq, responses, runs>>

\* the tasks list: one fetch_article coroutine per link
make_tasks(links) == [i \in 1..Len(links) |-> NewTask]

\* the tasks created inside the loop, before its last iteration
DispatchInsideLoop ==
    /\ phase = "Planning"
    /\ tasks' = make_tasks(article_links)
    /\ doneq' = <<>>
    /\ phase' = "Collecting"
    /\ UNCHANGED <<call_vars, fetcher_vars, article_links, articles, pages, page, responses, runs>>

\* the loop is over: the client is opened and the gather creates the tasks
Dispatch ==
    /\ phase = "Planning"
    /\ page > pages
    /\ tasks' = make_tasks(article_links)
    /\ doneq' = <<>>
    /\ phase' = "Collecting"
    /\ UNCHANGED <<call_vars, fetcher_vars, article_links, articles, pages, page, responses, runs>>

(***************************************************************************)
(* fetch_article under @retry(stop=stop_after_attempt(3),                  *)
(* wait=wait_fixed(2)): an attempt awaits client.get; a failed attempt is  *)
(* re-raised to the retry loop, which sleeps and tries again, or raises    *)
(* RetryError once stop_after_attempt says so.                             *)
(***************************************************************************)
\* a retry budget that is one attempt long
stop_after_four(attempt_number) == attempt_number > MaxAttempts

\* a retry budget that is one attempt short
stop_after_two(attempt_number) == attempt_number >= MaxAttempts - 1

stop_after_attempt(attempt_number) == attempt_number >= MaxAttempts

\* an attempt begins: client.get is awaited
start_attempt(t) == [t EXCEPT !.st = "inflight", !.attempts = @ + 1]

\* return response.text: the call is over and its retry state is dropped, the
\* task's result is the text alone
attempt_succeeded(t, body) == [NewTask EXCEPT !.st = "ok", !.body = Some(body)]

\* raise e: the retry loop stops with RetryError, which carries the last
\* attempt, or sleeps wait_fixed(2)
attempt_failed(t) ==
    IF stop_after_attempt(t.attempts)
    THEN [t EXCEPT !.st = "failed"]
    ELSE [t EXCEPT !.st = "sleeping", !.sleeps = @ + 1]

\* CancelledError is thrown into the task where it waits; it is no Exception,
\* so neither the except clause nor the retry loop handles it
cancelled(t) == [NewTask EXCEPT !.st = "cancelled"]

\* the tasks run while the gather waits, and go on running when the gather has
\* raised and nobody waits for them any more
TasksRun == phase \in {"Collecting", "Aborted"}

Settle(i, t) ==
    /\ tasks' = [tasks EXCEPT ![i] = t]
    /\ doneq' = IF t.st \in Finished THEN Append(doneq, i) ELSE doneq
    /\ UNCHANGED <<call_vars, fetcher_vars, phase, article_links, articles, pages, page,
                   responses, runs>>

\* the event loop runs task i for the first time
TaskStart(i) ==
    /\ TasksRun
    /\ i \in TaskIds
    /\ tasks[i].st = "ready"
    /\ Settle(i, start_attempt(tasks[i]))

\* the transport answers the request of task i
TransportRespond(i, status, body) ==
    /\ TasksRun
    /\ i \in TaskIds
    /\ tasks[i].st = "inflight"
    /\ Settle(i, IF raise_for_status_raises(status)
                 THEN attempt_failed(tasks[i])
                 ELSE attempt_succeeded(tasks[i], body))

\* client.get raises: a transport error, or the timeout
TransportError(i) ==
    /\ TasksRun
    /\ i \in TaskIds
    /\ tasks[i].st = "inflight"
    /\ Settle(i, attempt_failed(tasks[i]))

\* the sleep between two attempts is over
WakeUp(i) ==
    /\ TasksRun
    /\ i \in TaskIds
    /\ tasks[i].st = "sleeping"
    /\ Settle(i, start_attempt(tasks[i]))

(***************************************************************************)
(* tqdm_asyncio.gather: the results are awaited in order of completion,    *)
(* each with the position of its task, and sorted by position at the end.  *)
(* Awaiting a task that raised RetryError raises it out of the gather, of  *)
(* fetch_all_articles and of run_async.                                    *)
(***************************************************************************)
\* the results left in the order of completion
gather_unsorted(ts, order) == [k \in 1..Len(order) |-> ts[order[k]].body]

gather_results(ts, order) ==
    sorted_results([k \in 1..Len(order) |-> <<order[k], ts[order[k]].body>>])

GatherReturn ==
    /\ phase = "Collecting"
    /\ \A i \in TaskIds : tasks[i].st = "ok"
    /\ responses' = gather_results(tasks, doneq)
    /\ phase' = "Parsing"
    /\ UNCHANGED <<call_vars, fetcher_vars, article_links, articles, pages, page, tasks,
                   doneq, runs>>

GatherRaise ==
    /\ phase = "Collecting"
    /\ \E i \in TaskIds : tasks[i].st = "failed"
    /\ phase' = "Aborted"
    /\ UNCHANGED <<call_vars, fetcher_vars, article_links, articles, pages, page, tasks,
                   doneq, responses, runs>>

\* asyncio.run ends with the exception and cancels the tasks still pending
Cancel ==
    /\ phase = "Aborted"
    /\ \E i \in TaskIds : tasks[i].st \notin Finished
    /\ tasks' = [i \in TaskIds |->
                    IF tasks[i].st \in Finished THEN tasks[i]
                    ELSE cancelled(tasks[i])]
    /\ UNCHANGED <<call_vars, fetcher_vars, phase, article_links, articles, pages, page,
                   doneq, responses, runs>>

\* the two comprehensions of run_async
parsed_articles(resps, links) == flatten(parse_all(resps, links))

Parse ==
    /\ phase = "Parsing"
    /\ articles' = parsed_articles(responses, article_links)
    /\ phase' = "Done"
    /\ UNCHANGED <<call_vars, fetcher_vars, article_links, pages, page, tasks, doneq,
                   responses, runs>>

Next ==
    \/ \E p \in PageCounts : RunAsync(p)
    \/ PlanPage
    \/ Dispatch
    \/ \E i \in TaskIds : TaskStart(i)
    \/ \E i \in TaskIds, status \in Statuses, body \in Bodies :
            TransportRespond(i, status, body)
    \/ \E i \in TaskIds : TransportError(i)
    \/ \E i \in TaskIds : WakeUp(i)
    \/ GatherReturn
    \/ GatherRaise
    \/ Cancel
    \/ Parse

Spec == Init /\ [][Next]_vars

(***************************************************************************)
(* BaseFetcher with the planner of any subclass: construct_or_retrieve_links *)
(* may raise for a page.                                                   *)
(***************************************************************************)
NextBase == Next \/ PlanRaise

SpecBase == Init /\ [][NextBase]_vars

(***************************************************************************)
(* The scheduling of the event loop: a coroutine that can run is run, a    *)
(* request in flight is answered or times out, a sleep ends.  Whether the  *)
(* caller calls run_async again, and whether the pending tasks of a run    *)
(* that raised are cancelled, is left open.                                *)
(***************************************************************************)
Answer(i) ==
    \/ \E status \in Statuses, body \in Bodies : TransportRespond(i, status, body)
    \/ TransportError(i)

Fairness ==
    /\ WF_vars(PlanPage)
    /\ WF_vars(Dispatch)
    /\ WF_vars(GatherReturn)
    /\ WF_vars(GatherRaise)
    /\ WF_vars(Parse)
    /\ \A i \in 1..MaxLinks :
        WF_vars(TaskStart(i)) /\ WF_vars(Answer(i)) /\ WF_vars(WakeUp(i))

FairSpec == Spec /\ Fairness

(***************************************************************************)
(* parse_article called on its own, on a fetcher that is not running.      *)
(***************************************************************************)
TextChoices == {None, Some(TxtPadded)}
TimeChoices == {None, Some(None), Some(Some(TxtDate))}
AllHeaders == {Header(t, d, l, c, b, a) :
                  t \in TextChoices, d \in TimeChoices, l \in TextChoices,
                  c \in TextChoices, b \in TextChoices, a \in TextChoices}
Fillers == {HdrFull, HdrBare}

\* n containers, one of them with any combination of elements
ContainerSeqs(n) ==
    IF n = 0 THEN {<<>>}
    ELSE {[f EXCEPT ![i] = h] : f \in [1..n -> Fillers], i \in 1..n, h \in AllHeaders}

ParseBodies ==
    {BodyEmpty, BodyBlank, <<TextNode>>, <<HdrFull, BadNode>>}
    \cup UNION {{<<WsNode>> \o cs \o <<TextNode>> : cs \in ContainerSeqs(n)} :
                   n \in 0..MaxContainers}
ParseUrls == {SeedPlain, constructed_url(<<"2", "5">>, 2)}

InitParse ==
    /\ Construct(SeedPlain, 1)
    /\ article_html \in ParseBodies
    /\ article_url \in ParseUrls
    /\ parsed = NotCalled

ParseArticle ==
    /\ phase = "Idle"
    /\ ~parsed.returned
    /\ parsed' = Returned(parse_article(article_html, article_url))
    /\ UNCHANGED <<fetcher_vars, run_vars, article_html, article_url>>

NextParse == ParseArticle

SpecParse == InitParse /\ [][NextParse]_vars

(***************************************************************************)
(* Properties.                                                             *)
(***************************************************************************)
\* the fetch operations executing: the transport call is issued, or the task
\* is between two attempts
Executing == {i \in TaskIds : tasks[i].st \in {"inflight", "sleeping"}}

\* C1: while the gather waits for the tasks of a run of a fetcher built with
\* max_connections = K, no more than K fetch operations execute at once.
C1_AtMostKConcurrent ==
    phase = "Collecting" => Cardinality(Executing) <= max_connections

\* C2: when the fetch of a URL has failed on all three attempts, run_async does
\* not raise: the run goes on to Done, with that URL as a page with no body
\* and the records of every other page in the result.
C2_RunCompletesWithPartialData ==
    /\ phase # "Aborted"
    /\ phase = "Done" =>
          \A i \in TaskIds : tasks[i].st = "failed" => IsNone(responses[i])

\* C3: a fetch_article call ends in the terminal error only after exactly 3
\* attempts, never makes a 4th, and waits once between every two consecutive
\* attempts.
C3_TerminalErrorAfterThreeAttempts ==
    \A i \in TaskIds :
        /\ tasks[i].attempts <= 3
        /\ tasks[i].st = "failed" => tasks[i].attempts = 3 /\ tasks[i].sleeps = 2
        /\ tasks[i].st = "inflight" => tasks[i].sleeps = tasks[i].attempts - 1
        /\ tasks[i].st = "sleeping" => tasks[i].sleeps = tasks[i].attempts

\* a fetch has failed three times in a row and ended in the terminal error
C3_Witness == \E i \in TaskIds : tasks[i].st = "failed"

\* the records of the page fetched for the link at position i, one per
\* container, in document order
RecordsOfPage(i) ==
    LET hs == SelectSeq(Get(tasks[i].body), IsHeader)
    IN  [j \in 1..Len(hs) |-> record_of(hs[j], PageOf(article_links[i]))]

RECURSIVE RecordsUpTo(_)
RecordsUpTo(n) == IF n = 0 THEN <<>> ELSE RecordsUpTo(n - 1) \o RecordsOfPage(n)

\* C4: the result of a run is the records of the first dispatched page, then
\* those of the second, and so on (page k before page k+1), each page's records
\* in the document order of their containers, whatever the order in which the
\* fetches completed.
C4_PageOrderPreserved ==
    phase = "Done" => articles = RecordsUpTo(Len(article_links))

\* a later page was fetched before an earlier one, and both gave records
C4_Witness ==
    /\ phase = "Done"
    /\ \E k \in 1..(Len(doneq) - 1) :
        /\ doneq[k] > doneq[k + 1]
        /\ Len(RecordsOfPage(doneq[k])) > 0
        /\ Len(RecordsOfPage(doneq[k + 1])) > 0

\* C5: in the first run of a fetcher, with page count N >= 1, the list of URLs
\* dispatched has exactly N elements, the i-th the URL of page i.
C5_PlanIsExactlyThePages ==
    (phase = "Collecting" /\ runs = 1 /\ pages >= 1) =>
        /\ Len(tasks) = pages
        /\ Len(article_links) = pages
        /\ \A i \in 1..Len(article_links) :
              article_links[i] = constructed_url(member_id, i)

NumHeaders(body) == Len(SelectSeq(body, IsHeader))

\* C6: in a first run with pages = 2 where the fetch of page 1 gives a body
\* with c containers and the fetch of page 2 an empty body, the result has
\* exactly c records, all with page number 1.
C6_EndToEnd ==
    (phase = "Done" /\ runs = 1 /\ pages = 2) =>
        \A i, j \in TaskIds :
            ( /\ article_links[i] = constructed_url(member_id, 1)
              /\ article_links[j] = constructed_url(member_id, 2)
              /\ Get(tasks[j].body) = BodyEmpty )
            => /\ Len(articles) = NumHeaders(Get(tasks[i].body))
               /\ \A r \in 1..Len(articles) : articles[r]["page_number"] = 1

\* the positions whose fetched body is empty or whitespace only
BlankPages == {i \in TaskIds : Len(strip_html(Get(tasks[i].body))) = 0}

\* a sequence without the elements at the positions in S
Omit(seq, S) ==
    LET F[n \in 0..Len(seq)] ==
            IF n = 0 THEN <<>>
            ELSE IF n \in S THEN F[n - 1] ELSE Append(F[n - 1], seq[n])
    IN  F[Len(seq)]

\* C9: a page whose body is empty or whitespace only gives no records and
\* does not abort the run (a run raises only when a fetch has failed), and the
\* result is what the run would have given without that page: the records of
\* the other pages, unchanged and in order.
C9_BlankPageIsOmitted ==
    /\ phase = "Aborted" => \E i \in TaskIds : tasks[i].st = "failed"
    /\ phase = "Done" =>
        /\ \A i \in BlankPages :
              flatten(<<parse_article(Get(tasks[i].body), article_links[i])>>) = <<>>
        /\ articles = parsed_articles(Omit(responses, BlankPages),
                                      Omit(article_links, BlankPages))

\* a run is Done with an empty body, a whitespace-only body and records
C9_Witness ==
    /\ phase = "Done"
    /\ \E i, j \in TaskIds :
          Get(tasks[i].body) = BodyEmpty /\ Get(tasks[j].body) = BodyBlank
    /\ Len(articles) > 0

\* C10: a run with a page count below 1 plans no page request and raises no
\* error, and so has nothing to dispatch.
C10_NothingToDispatch ==
    (phase \in {"Collecting", "Parsing", "Done", "Aborted"} /\ pages < 1) =>
        Len(tasks) = 0

\* the element the selector of field f finds in a container
ElementFor(header, f) ==
    CASE f = "Title" -> header.t_item
      [] f = "Date" -> header.time
      [] f = "Place" -> header.location
      [] f = "Capacity" -> header.capacity
      [] f = "Code of associated committee or delegation" -> header.committee
      [] f = "Meeting with" -> header.author

\* the extraction of field f has something to return
Extractable(header, f) ==
    /\ ~IsNone(ElementFor(header, f))
    /\ f = "Date" => ~IsNone(Get(header.time))

\* the body is not blank and the HTML parser accepts it
Parsable(body) ==
    /\ Len(strip_html(body)) > 0
    /\ \A i \in 1..Len(body) : body[i].kind # "bad"

\* C8: parse_article on a non-empty body with n containers returns n records
\* in container order; each has the six fields and the page number; a field
\* is null exactly when its extraction had nothing to return, whatever
\* happened to the other fields of the record and to the other records.
C8_FieldFailuresAreIsolated ==
    (parsed.returned /\ Parsable(article_html)) =>
        LET hs == SelectSeq(article_html, IsHeader)
        IN  /\ ~IsNone(parsed.value)
            /\ Len(Get(parsed.value)) = Len(hs)
            /\ \A j \in 1..Len(hs) :
                LET r == Get(parsed.value)[j]
                IN  /\ DOMAIN r = Keys
                    /\ r["page_number"] = PageOf(article_url)
                    /\ \A f \in Fields :
                        /\ IsNone(r[f]) <=> ~Extractable(hs[j], f)
                        /\ \A j2 \in 1..Len(hs) :
                              ElementFor(hs[j], f) = ElementFor(hs[j2], f)
                              => r[f] = Get(parsed.value)[j2][f]

\* a container without its date element gave a record with Date null and the
\* other five fields populated, next to another record
C8_Witness ==
    /\ parsed.returned
    /\ ~IsNone(parsed.value)
    /\ Len(Get(parsed.value)) >= 2
    /\ \E j \in 1..Len(Get(parsed.value)) :
          \A f \in Fields : IsNone(Get(parsed.value)[j][f]) <=> f = "Date"

\* C7: every fetch task a run dispatched completes with a body or with the
\* terminal failure: a task that has ended has ended in one of the two.
C7_EveryTaskCompletes ==
    \A i \in TaskIds :
        tasks[i].st \in Finished => tasks[i].st \in {"ok", "failed"}

\* C7, the progress under FairSpec: a task that has not ended yet ends with a
\* body or the terminal failure, and the run leaves Collecting.
C7_Progress ==
    /\ \A i \in 1..MaxLinks :
          (i \in TaskIds /\ tasks[i].st \notin Finished)
          ~> (i \in TaskIds /\ tasks[i].st \in {"ok", "failed"})
    /\ (phase = "Collecting") ~> (phase # "Collecting")

\* the URL has a segment of digits between two slashes
HasIdSegment(url) ==
    \E i \in 1..Len(url.path) :
        IsDigits(url.path[i]) /\ i < Len(url.path)

\* C11: when the seed URL has no /<digits>/ segment, the construction fails
\* and no fetcher exists: no run is ever made on it, no link is planned beyond
\* what __init__ had assigned, and no fetch task (so no transport call) exists.
C11_InvalidSeedMakesNoFetcher ==
    ~HasIdSegment(referer_url) =>
        /\ phase = "Invalid"
        /\ runs = 0
        /\ article_links = <<referer_url>>
        /\ tasks = <<>>
        /\ articles = <<>>

\* the constructor was given a seed whose only numeric segment is the last one
C11_Witness == phase = "Invalid" /\ referer_url = SeedIdLast

\* the limiter slots taken: what the semaphore has given out
SlotsHeld == max_connections - semaphore

\* C12: a fetch task holds one limiter slot from before its first transport
\* attempt until its last attempt has finished, so the slots taken are as many
\* as the tasks between their first attempt and their end, the free slots and
\* the holders add up to K, and all K slots are free at Done.
C12_SlotHeldWhileFetching ==
    /\ semaphore >= 0
    /\ SlotsHeld = Cardinality(Executing)
    /\ phase = "Done" => semaphore = max_connections

\* the link is the request of a page, and the index of that page
IsPageLink(url) == \E p \in 1..MaxPages : url = constructed_url(member_id, p)
PageIndex(url) == CHOOSE p \in 1..MaxPages : url = constructed_url(member_id, p)

\* for every container of every fetched body, in the order of the requests:
\* the position of the request and the container's place in its body
RECURSIVE OriginsUpTo(_)
OriginsUpTo(n) ==
    IF n = 0 THEN <<>>
    ELSE OriginsUpTo(n - 1)
         \o [j \in 1..NumHeaders(Get(tasks[n].body)) |-> <<n, j>>]

SameCall(i) == runs' = runs /\ i \in TaskIds /\ i \in DOMAIN tasks'

\* C14: a fetch_article call makes at most 3 attempts; a failed attempt uses
\* up the one attempt that was counted when it began; the first attempt that
\* succeeds ends the call with the body of that very answer, and a call that
\* has returned makes no further attempt.
C14_AttemptsAreCountedOnce ==
    [][\A i \in 1..MaxLinks : SameCall(i) =>
          LET t == tasks[i]
              u == tasks'[i]
          IN  /\ u.attempts <= 3
              /\ (u.st = "inflight" /\ u # t) =>
                    t.st \in {"ready", "sleeping"} /\ u.attempts = t.attempts + 1
              /\ (t.st = "inflight" /\ u.st \in {"sleeping", "failed"}) =>
                    /\ u.attempts = t.attempts
                    /\ u.st = "failed" <=> t.attempts = 3
              /\ (t.st = "inflight" /\ u.st = "ok") =>
                    \E body \in Bodies :
                        TransportRespond(i, 200, body) /\ u.body = Some(body)
              /\ t.st = "ok" => u = t
              /\ u.st # "ok" => IsNone(u.body)]_vars

\* a call is on its third attempt, two failed attempts behind it, while
\* another call of the run has returned its body
C14_Witness ==
    \E i, j \in TaskIds :
        /\ tasks[i].st = "inflight" /\ tasks[i].attempts = 3
        /\ tasks[j].st = "ok"

\* the last n links are the links of the pages 1..n, in order
LastLinksArePages(links, n) ==
    /\ Len(links) >= n
    /\ \A k \in 1..n : links[Len(links) - n + k] = constructed_url(member_id, k)

\* C15: the phases of a run follow one another: while the links are planned
\* no fetch task exists, and when one exists the links of all the pages 1..N
\* have been planned; the link list does not change from the dispatch until
\* Done; the result changes only in the parsing step, which is taken when
\* every dispatched fetch task has completed.
C15_PhasesAreOrdered ==
    [][/\ phase' = "Planning" => tasks' = <<>>
       /\ tasks' # <<>> =>
            /\ page' > pages'
            /\ LastLinksArePages(article_links', Max(pages', 0))
            /\ Len(tasks') = Len(article_links')
       /\ phase \in {"Collecting", "Parsing"} => article_links' = article_links
       /\ articles' # articles =>
            /\ phase = "Parsing" /\ phase' = "Done"
            /\ \A i \in TaskIds : tasks[i].st \in {"ok", "failed"}]_vars

\* a run over two pages has gone through all its phases and gave records
C15_Witness == phase = "Done" /\ pages = 2 /\ Len(articles) > 0

\* run_async raised while the links were planned: the run has no task
PlanningAborted == phase = "Aborted" /\ tasks = <<>>

\* C16: when link construction raises for page j, run_async raises: planning
\* stops at page j (the links planned in the run are those of pages 1..j-1 and
\* stay so), and no fetch is dispatched in that run; a run that does dispatch
\* has planned every page.
C16_PlanningFailureAbortsTheRun ==
    [][/\ (phase = "Planning" /\ phase' = "Aborted") =>
            /\ page <= pages
            /\ page' = page
            /\ article_links' = article_links
            /\ tasks' = <<>>
       /\ (PlanningAborted /\ runs' = runs) =>
            /\ PlanningAborted'
            /\ article_links' = article_links
            /\ page' = page
       /\ PlanningAborted' => LastLinksArePages(article_links', page' - 1)
       /\ tasks' # <<>> => LastLinksArePages(article_links', Max(pages', 0))]_vars

\* link construction raised for page 2 of 2, after page 1 had been planned
C16_Witness == PlanningAborted /\ page = 2 /\ pages = 2

\* the links of the pages 1..n
PageLinks(n) == [k \in 1..n |-> constructed_url(member_id, k)]

\* the links of runs with the page counts q[1], ..., q[k], one run after the
\* other
RECURSIVE LinksOfRuns(_, _)
LinksOfRuns(q, k) ==
    IF k = 0 THEN <<>> ELSE LinksOfRuns(q, k - 1) \o PageLinks(q[k])

IsPrefix(xs, ys) == Len(xs) <= Len(ys) /\ SubSeq(ys, 1, Len(xs)) = xs

\* C17: the link list is never reset: after k calls of run_async it is the
\* seed URL followed by the links of run 1, then of run 2, ..., then of run k
\* (of the current run those planned so far, max(p, 0) of them when planning
\* is over); no step removes or reorders an entry; and a run dispatches one
\* fetch for every link of the list, those of the earlier runs included.
C17_LinksAccumulateAcrossRuns ==
    [][/\ IsPrefix(article_links, article_links')
       /\ IF runs' = runs /\ page' # page
          THEN article_links' = Append(article_links,
                                       constructed_url(member_id, page))
          ELSE article_links' = article_links
       /\ \E q \in [1..runs' -> 0..MaxPages] :
            /\ runs' > 0 => q[runs'] = page' - 1
            /\ article_links' = <<referer_url>> \o LinksOfRuns(q, runs')
       /\ phase' \in {"Collecting", "Parsing", "Done"} =>
            /\ page' - 1 = Max(pages', 0)
            /\ Len(tasks') = Len(article_links')]_vars

\* a second run over one page has fetched the seed, the page link of the
\* first run and its own
C17_Witness ==
    /\ phase = "Done"
    /\ runs = 2
    /\ article_links = <<referer_url>> \o PageLinks(1) \o PageLinks(1)
    /\ Len(responses) = 3

\* C18: a run that aborts (link planning raises, or a fetch raises out of the
\* gather) leaves self.articles as it was before the run: no step but the
\* parsing step that takes a run to Done changes the stored result, and a run
\* that has aborted never takes that step; the links planned before the abort
\* stay in article_links.
C18_AbortKeepsTheResult ==
    [][/\ articles' # articles =>
            /\ phase = "Parsing" /\ phase' = "Done"
            /\ articles' = parsed_articles(responses, article_links)
       /\ phase' = "Aborted" =>
            /\ articles' = articles
            /\ phase \in {"Planning", "Collecting", "Aborted"}
            /\ IsPrefix(article_links, article_links')
       /\ phase = "Aborted" =>
            \/ phase' = "Aborted" /\ runs' = runs
            \/ phase' = "Planning" /\ runs' = runs + 1]_vars

\* a second run aborted in the gather: the records of the first run are still
\* the stored result, and the list holds the link the second run planned
C18_Witness ==
    /\ phase = "Aborted"
    /\ runs = 2
    /\ tasks # <<>>
    /\ Len(articles) > 0
    /\ article_links = <<referer_url>> \o PageLinks(1) \o PageLinks(1)

\* the seed URL heads the link list, so the first task of every gather is its
\* fetch, and at Done the records of its body are the first of the result,
\* each with the page number n
SeedComesFirst(n) ==
    phase # "Invalid" =>
        /\ Len(article_links) >= 1
        /\ article_links[1] = referer_url
        /\ phase \in {"Collecting", "Parsing", "Done"} => Len(tasks) >= 1
        /\ phase = "Done" =>
              LET hs == SelectSeq(Get(tasks[1].body), IsHeader)
              IN  /\ Len(articles) >= Len(hs)
                  /\ \A j \in 1..Len(hs) :
                        /\ \A f \in Fields : articles[j][f] = field_value(hs[j], f)
                        /\ articles[j]["page_number"] = n

\* C19 as stated: the seed URL is always the first element of article_links,
\* every run dispatches a fetch for it ahead of the page links, and the
\* records parsed from its body carry page number 0 and precede all records
\* of the pages 1..N.
C19_SeedRecordsCarryPageZero == SeedComesFirst(0)

\* the number after "page=" in the seed URL, 0 when it has no such parameter
SeedPageNumber ==
    LET hits == {i \in 1..Len(referer_url.query) : referer_url.query[i].k = "page"}
    IN  IF hits = {} THEN 0
        ELSE int(referer_url.query[CHOOSE i \in hits : \A j \in hits : i <= j].v)

\* C19, amended: as above, but the records of the seed's body carry the
\* number that follows "page=" in the seed URL when it has such a parameter,
\* and 0 only when it has none.
C19_SeedRecordsCarrySeedPage == SeedComesFirst(SeedPageNumber)

\* a run is Done whose seed URL has page=7: its records head the result with
\* page number 7, ahead of the records of page 1
C19_Witness ==
    /\ phase = "Done"
    /\ referer_url = SeedPaged
    /\ Len(articles) >= 2
    /\ articles[1]["page_number"] = 7
    /\ articles[Len(articles)]["page_number"] = 1

====
